---- MODULE Spec2Model ----
(***************************************************************************)
(* Model of jobko_FirstVVIP.py: the URL resolver (_extract_job_url), the   *)
(* listing parser (scrape_job_postings), the company resolver and the      *)
(* merge / upload step of main.                                            *)
(*                                                                         *)
(* Strings are sequences of tokens.  A token is either a single character  *)
(* that the code tests for (" ", "/", "#", "_"), a prefix the code tests   *)
(* for as a whole ("javascript:", "https:", an origin such as              *)
(* "https://host"), or an opaque word.  Python's None is the value None.   *)
(***************************************************************************)
EXTENDS Naturals, Integers, Sequences, FiniteSets, TLC

VARIABLES
    pc,           \* position of the run
    li,           \* the listing node handed to _extract_job_url (SpecUrl)
    job_url,      \* what _extract_job_url returned (SpecUrl)
    existing_df,  \* main: rows loaded from the stored CSV
    new_df,       \* main: rows returned by scrape_job_postings
    batches,      \* number of batches scrape_job_postings has returned
    combined_df,  \* main: rows after concat + drop_duplicates
    again,        \* SpecMerge: the merge applied once more with an empty batch
    stored,       \* the CSV file in the Drive folder: [exists, rows]
    stored0,      \* the CSV file as it was when the run started
    file_id,      \* main: id of the file found in the folder ("": none)
    writes,       \* number of files().update / files().create executed
    doc,          \* the page: [section |-> BOOLEAN]
    items,        \* the li nodes of ul.list_firstvvip, in document order
    idx,          \* number of nodes the loop has finished
    cur,          \* fields extracted for the node in progress
    rows,         \* scrape_job_postings: rows appended so far
    fetched,      \* node indexes for which _fetch_company_from_detail ran
    today,        \* the calendar date datetime.now() returns
    cause         \* why the run aborted ("" while it has not)

vars == <<pc, li, job_url, existing_df, new_df, batches, combined_df, again,
          stored, stored0, file_id, writes, doc, items, idx, cur, rows,
          fetched, today, cause>>

(***************************************************************************)
(* Bounds                                                                  *)
(***************************************************************************)
MaxAnchors == 2
MaxExisting == 2
MaxIncoming == 2
MaxNodes == 2
MaxDate == 2

(***************************************************************************)
(* Strings                                                                 *)
(***************************************************************************)
None == <<"None">>

\* Python truthiness of an optional string: neither None nor "".
Truthy(v) == v # None /\ v # <<>>

\* x or ""
OrEmpty(v) == IF Truthy(v) THEN v ELSE <<>>

IsSpace(t) == t = " "

RECURSIVE LStrip(_)
LStrip(s) == IF s # <<>> /\ IsSpace(Head(s)) THEN LStrip(Tail(s)) ELSE s

RECURSIVE RStrip(_)
RStrip(s) ==
    IF s # <<>> /\ IsSpace(s[Len(s)]) THEN RStrip(SubSeq(s, 1, Len(s) - 1)) ELSE s

\* str.strip()
Strip(s) == RStrip(LStrip(s))

\* str.startswith(p)
StartsWith(s, p) == Len(s) >= Len(p) /\ SubSeq(s, 1, Len(p)) = p

LowerTok(t) ==
    CASE t = "JavaScript:" -> "javascript:"
      [] t = "HTTPS://HOST" -> "https://host"
      [] OTHER -> t

\* str.lower()
Lower(s) == [i \in DOMAIN s |-> LowerTok(s[i])]

\* low.startswith("javascript")
StartsWithJavascript(low) == low # <<>> /\ low[1] = "javascript:"

\* low.startswith("http")
StartsWithHttp(low) ==
    low # <<>> /\ low[1] \in {"https://host", "https://www.jobkorea.co.kr", "https:"}

Blank(s) == \A i \in DOMAIN s : IsSpace(s[i])

BASE_URL == <<"https://www.jobkorea.co.kr">>

\* urllib.parse.urljoin(base, u) for u that starts with one "/": the origin of
\* base followed by the path; an empty trailing fragment ("#") is dropped.
urljoin(base, u) ==
    base \o (IF u[Len(u)] = "#" THEN SubSeq(u, 1, Len(u) - 1) ELSE u)

_fix_url(u) ==
    IF ~Truthy(u) THEN u
    ELSE LET s == Strip(u) IN
         IF StartsWith(s, <<"/", "/">>) THEN <<"https:">> \o s
         ELSE IF StartsWith(s, <<"/">>) THEN urljoin(BASE_URL, s)
         ELSE s

(***************************************************************************)
(* Listing nodes as far as _extract_job_url reads them                     *)
(***************************************************************************)
\* An anchor of the node: cls says which selector finds it.
Anchor(cls, href, dlink, gno) ==
    [cls |-> cls, href |-> href, dlink |-> dlink, gno |-> gno]

\* li.select_one(sel): index of the first anchor with that class, 0 if none.
select_one(anchors, cls) ==
    IF \E i \in DOMAIN anchors : anchors[i].cls = cls
    THEN CHOOSE i \in DOMAIN anchors :
            /\ anchors[i].cls = cls
            /\ \A j \in 1..(i - 1) : anchors[j].cls # cls
    ELSE 0

\* li.select("a[href]"): the anchors that carry an href attribute, in order.
select_a_href(anchors) == SelectSeq(anchors, LAMBDA a : a.href # None)

\* The test _first_valid_href applies to one anchor; "" when it is skipped.
ValidHrefOf(a) ==
    LET href == Strip(OrEmpty(a.href))
        low  == Lower(href)
    IN  IF href = <<>> THEN <<>>
        ELSE IF StartsWithJavascript(low) \/ href \in {<<"#">>, <<"/", "#">>} THEN <<>>
        ELSE IF StartsWithHttp(low) \/ StartsWith(href, <<"/">>) THEN href
        ELSE <<>>

RECURSIVE _first_valid_href(_)
_first_valid_href(anchors) ==
    IF anchors = <<>> THEN <<>>
    ELSE IF ValidHrefOf(Head(anchors)) # <<>> THEN ValidHrefOf(Head(anchors))
    ELSE _first_valid_href(Tail(anchors))

\* json.loads(html.unescape(attr)).get(key): the attribute is given by what
\* the parse makes of it.  kind "malformed" raises JSONDecodeError, kind
\* "array" parses to a list whose .get raises AttributeError.
JsonGet(attr) ==
    CASE attr.kind = "object" -> [raised |-> FALSE, value |-> attr.id]
      [] OTHER -> [raised |-> TRUE, value |-> None]

\* "if dm:": the attribute is present and not the empty string.
AttrTruthy(attr) == attr.kind \notin {"absent", "empty"}

\* f"/Recruit/GI_Read/{gno}"
GI_Read(gno) == <<"/", "Recruit", "/", "GI_Read", "/">> \o gno

NoURL == <<"No URL">>

\* Tiers 6-8 of _extract_job_url (lines 213-238).
IdTiers(n, a) ==
    LET gno == IF a # 0 THEN Strip(OrEmpty(n.anchors[a].gno)) ELSE <<>>
        dm  == JsonGet(n.dm)
        dmp == JsonGet(n.dmp)
    IN  IF gno # <<>> THEN _fix_url(GI_Read(gno))
        ELSE IF AttrTruthy(n.dm) /\ ~dm.raised /\ Truthy(dm.value)
             THEN _fix_url(GI_Read(dm.value))
        ELSE IF AttrTruthy(n.dmp) /\ ~dmp.raised /\ Truthy(dmp.value)
             THEN _fix_url(GI_Read(dmp.value))
        ELSE NoURL

\* Tiers 3-5 (lines 202-211), then the id tiers.
LinkTiers(n, a) ==
    LET d  == select_one(n.anchors, "description")
        c  == select_one(n.anchors, "company-name")
        hd == IF d # 0 THEN _first_valid_href(<<n.anchors[d]>>) ELSE <<>>
        hc == IF c # 0 THEN _first_valid_href(<<n.anchors[c]>>) ELSE <<>>
        any_href == _first_valid_href(select_a_href(n.anchors))
    IN  IF hd # <<>> THEN _fix_url(hd)
        ELSE IF hc # <<>> THEN _fix_url(hc)
        ELSE IF any_href # <<>> THEN _fix_url(any_href)
        ELSE IdTiers(n, a)

\* A slip that asks the primary anchor for its data-gno in the first "if a:"
\* block, before the links of the node are looked at.
_extract_job_url_GnoEarly(n) ==
    LET a == select_one(n.anchors, "card-wrap")
        href  == IF a # 0 THEN Strip(OrEmpty(n.anchors[a].href)) ELSE <<>>
        dlink == IF a # 0 THEN Strip(OrEmpty(n.anchors[a].dlink)) ELSE <<>>
        gno   == IF a # 0 THEN Strip(OrEmpty(n.anchors[a].gno)) ELSE <<>>
    IN  IF a # 0 /\ href # <<>> /\ ~StartsWithJavascript(Lower(href)) THEN _fix_url(href)
        ELSE IF a # 0 /\ dlink # <<>> THEN _fix_url(dlink)
        ELSE IF a # 0 /\ gno # <<>> THEN _fix_url(GI_Read(gno))
        ELSE LinkTiers(n, a)

_extract_job_url(n) ==
    LET a == select_one(n.anchors, "card-wrap")
        href  == IF a # 0 THEN Strip(OrEmpty(n.anchors[a].href)) ELSE <<>>
        dlink == IF a # 0 THEN Strip(OrEmpty(n.anchors[a].dlink)) ELSE <<>>
    IN  IF a # 0 /\ href # <<>> /\ ~StartsWithJavascript(Lower(href)) THEN _fix_url(href)
        ELSE IF a # 0 /\ dlink # <<>> THEN _fix_url(dlink)
        ELSE LinkTiers(n, a)

(***************************************************************************)
(* Inputs of the URL resolver                                              *)
(***************************************************************************)
RECURSIVE SeqsUpTo(_, _)
SeqsUpTo(S, n) ==
    IF n = 0 THEN {<<>>}
    ELSE LET shorter == SeqsUpTo(S, n - 1)
         IN  shorter \cup {Append(q, x) : q \in {r \in shorter : Len(r) = n - 1}, x \in S}

CardHrefs ==
    {None, <<>>, <<"javascript:">>, <<"JavaScript:">>, <<"#">>, <<"/", "a">>,
     <<"/", "/", "a">>, <<"https://host", "/", "a">>, <<"a">>,
     <<" ", "/", "a", " ">>}
CardDlinks == {None, <<"/", "b">>, <<"javascript:">>}
CardGnos == {None, <<"7">>}
Cards == {Anchor("card-wrap", h, d, g) : h \in CardHrefs, d \in CardDlinks, g \in CardGnos}

\* The hrefs tried for the other anchors, by the selector that finds them.
LinkHrefs(cls) ==
    CASE cls = "description" -> {<<"#">>, <<"/", "d">>}
      [] cls = "company-name" -> {<<"javascript:">>, <<"HTTPS://HOST", "/", "n">>}
      [] OTHER -> {None, <<"/", "o">>}
Links ==
    UNION {{Anchor(cls, h, None, None) : h \in LinkHrefs(cls)} :
              cls \in {"description", "company-name", "other"}}

JsonAttr(kind, id) == [kind |-> kind, id |-> id]
DataMatches ==
    {JsonAttr("absent", None), JsonAttr("malformed", None),
     JsonAttr("object", None), JsonAttr("object", <<"8">>)}
DmpCollections ==
    {JsonAttr("absent", None), JsonAttr("array", None), JsonAttr("object", <<"9">>)}

\* The primary anchor, when the node has one, is its first anchor.
UrlNodes ==
    {[anchors |-> c \o rest, dm |-> dm, dmp |-> dmp] :
        c \in {<<>>} \cup {<<k>> : k \in Cards},
        rest \in SeqsUpTo(Links, MaxAnchors),
        dm \in DataMatches, dmp \in DmpCollections}

(***************************************************************************)
(* Records and the merge of main                                           *)
(***************************************************************************)
Record(company, logo, title, summary, dday, url, date) ==
    [Company |-> company, Logo |-> logo, Title |-> title, Summary |-> summary,
     DDay |-> dday, URL |-> url, Date |-> date]

\* subset=["Job URL", "Job Title"]
Key(r) == <<r.URL, r.Title>>

\* pd.concat([existing_df, new_df], ignore_index=True)
concat(a, b) == a \o b

\* Removing rows while walking over them: the row after a dropped one is
\* never looked at.
RECURSIVE drop_duplicates_SkipAfterDrop(_)
drop_duplicates_SkipAfterDrop(df) ==
    IF df = <<>> THEN <<>>
    ELSE IF \E j \in 2..Len(df) : Key(df[j]) = Key(df[1])
         THEN IF Len(df) >= 2
              THEN <<df[2]>> \o drop_duplicates_SkipAfterDrop(Tail(Tail(df)))
              ELSE <<>>
    ELSE <<df[1]>> \o drop_duplicates_SkipAfterDrop(Tail(df))

\* keep="first" instead of keep="last".
drop_duplicates_KeepFirst(df) ==
    LET keep == {i \in DOMAIN df : \A j \in 1..(i - 1) : Key(df[j]) # Key(df[i])}
        F[i \in 0..Len(df)] ==
            IF i = 0 THEN <<>>
            ELSE IF i \in keep THEN Append(F[i - 1], df[i]) ELSE F[i - 1]
    IN  F[Len(df)]

\* DataFrame.drop_duplicates(subset=[...], keep="last"): a row is dropped when
\* a later row has its key; the rows kept stay in their order.
RECURSIVE drop_duplicates(_)
drop_duplicates(df) ==
    IF df = <<>> THEN <<>>
    ELSE IF \E j \in 2..Len(df) : Key(df[j]) = Key(df[1])
         THEN drop_duplicates(Tail(df))
    ELSE <<df[1]>> \o drop_duplicates(Tail(df))

\* Lines 343-344 of main.
Merge(existing, incoming) == drop_duplicates(concat(existing, incoming))

MergeKeys ==
    {<<<<"https://host", "/", "u1">>, <<"Old Title">>>>,
     <<<<"https://host", "/", "u1">>, <<"New Title">>>>,
     <<NoURL, <<"Old Title">>>>}
MergeDates == {<<"2026-01-01">>, <<"2026-01-02">>}
MergeRecords ==
    {Record(<<"Acme">>, <<"No Logo URL">>, k[2], <<"No Summary">>, <<"No D-Day">>, k[1], d) :
        k \in MergeKeys, d \in MergeDates}

(***************************************************************************)
(* Field extraction of scrape_job_postings                                 *)
(***************************************************************************)
\* What a selector finds: an element with its text fragments, or nothing.
Elem(frags) == [found |-> TRUE, frags |-> frags]
NoElem == [found |-> FALSE, frags |-> <<>>]

\* Tag.get_text(sep, strip=True): the fragments stripped, the empty ones
\* left out, joined by sep.
RECURSIVE get_text(_, _)
get_text(frags, sep) ==
    IF frags = <<>> THEN <<>>
    ELSE LET h == Strip(Head(frags))
             t == get_text(Tail(frags), sep)
         IN  IF h = <<>> THEN t
             ELSE IF t = <<>> THEN h
             ELSE h \o sep \o t

_text(node) == IF node.found THEN get_text(node.frags, <<" ">>) ELSE <<>>

\* html.unescape on the tokens that stand for entities.
unescape(s) == [i \in DOMAIN s |-> IF s[i] = "&lt;BR&gt;" THEN "<BR>" ELSE s[i]]

\* str.replace(old, " ") for a one-token old.
replace(s, old) == [i \in DOMAIN s |-> IF s[i] = old THEN " " ELSE s[i]]

\* str.lstrip("_")
RECURSIVE lstrip_underscore(_)
lstrip_underscore(s) ==
    IF s # <<>> /\ Head(s) = "_" THEN lstrip_underscore(Tail(s)) ELSE s

\* payload.split("_", 1)[0], for a payload that holds a "_".
RECURSIVE split_first(_)
split_first(s) ==
    IF s = <<>> \/ Head(s) = "_" THEN <<>> ELSE <<Head(s)>> \o split_first(Tail(s))

\* n.btn: button.btnScrap, with the single-quoted literals of its onclick
\* (re.findall(r"'([^']*)'", onclick)); no onclick gives no literals.
_extract_company_from_onclick(n) ==
    IF ~n.btn.found THEN None
    ELSE IF n.btn.literals = <<>> THEN None
    ELSE LET last == n.btn.literals[Len(n.btn.literals)]
             payload == Strip(lstrip_underscore(
                            replace(replace(unescape(last), "<BR>"), "&lt;BR&gt;")))
         IN  IF \E i \in DOMAIN payload : payload[i] = "_"
             THEN LET company == Strip(split_first(payload))
                  IN  IF company = <<>> THEN None ELSE company
             ELSE None

\* What session.get(job_url) and the parse of the detail page come to.
Outcome(kind, frags) == [kind |-> kind, frags |-> frags]

\* The same without the try / except around the request and the parse.
_fetch_company_from_detail_NoTry(url, outcome) ==
    IF ~Truthy(url) \/ url = NoURL THEN [raised |-> FALSE, value |-> None]
    ELSE CASE outcome.kind \in {"transport", "http_error", "unparsable"} ->
                  [raised |-> TRUE, value |-> None]
           [] outcome.kind = "element" ->
                  LET t == get_text(outcome.frags, <<>>)
                  IN  [raised |-> FALSE, value |-> IF t = <<>> THEN None ELSE t]
           [] OTHER -> [raised |-> FALSE, value |-> None]

\* raised: an exception leaves the function.  A transport exception, an HTTP
\* error status (raise_for_status) and a page the parser rejects are caught
\* by "except Exception"; a meta element has no text, so get_text gives "".
_fetch_company_from_detail(url, outcome) ==
    IF ~Truthy(url) \/ url = NoURL THEN [raised |-> FALSE, value |-> None]
    ELSE CASE outcome.kind \in {"transport", "http_error", "unparsable"} ->
                  [raised |-> FALSE, value |-> None]
           [] outcome.kind = "element" ->
                  LET t == get_text(outcome.frags, <<>>)
                  IN  [raised |-> FALSE, value |-> IF t = <<>> THEN None ELSE t]
           [] outcome.kind = "meta" ->
                  LET t == get_text(<<>>, <<>>)
                  IN  [raised |-> FALSE, value |-> IF t = <<>> THEN None ELSE t]
           [] OTHER -> [raised |-> FALSE, value |-> None]

NoTitle == <<"No Title">>
NoSummary == <<"No Summary">>
NoDDay == <<"No D-Day">>
NoLogoURL == <<"No Logo URL">>
NoCompanyName == <<"No Company Name">>

\* x or sentinel
OrElse(v, sentinel) == IF Truthy(v) THEN v ELSE sentinel

\* Line 283.
logo_url_of(n) ==
    IF n.logo.found /\ Truthy(n.logo.src) THEN _fix_url(n.logo.src) ELSE NoLogoURL

\* datetime.now().strftime("%Y-%m-%d")
strftime(d) ==
    <<CASE d = 1 -> "2026-01-01" [] d = 2 -> "2026-01-02"
        [] d = 3 -> "2026-01-03" [] OTHER -> "2026-01-04">>

\* Lines 278-285: the fields of one node before the company fallback.
Extracted(n) ==
    [job_url |-> _extract_job_url(n),
     title   |-> OrElse(_text(n.description), NoTitle),
     summary |-> OrElse(_text(n.summary), NoSummary),
     dday    |-> OrElse(_text(n.dday), NoDDay),
     logo_url |-> logo_url_of(n),
     company |-> _extract_company_from_onclick(n)]

NoCur ==
    [job_url |-> None, title |-> None, summary |-> None, dday |-> None,
     logo_url |-> None, company |-> None]

\* Line 286.
NeedsDetail(c) == ~Truthy(c.company) /\ Truthy(c.job_url) /\ c.job_url # NoURL

(***************************************************************************)
(* The stored CSV                                                          *)
(***************************************************************************)
NaN == <<"NaN">>

\* DataFrame.to_csv: a missing value is written as an empty field.
to_csv_field(v) == IF v = NaN THEN <<>> ELSE v
to_csv(df) == [i \in DOMAIN df |-> [c \in DOMAIN df[i] |-> to_csv_field(df[i][c])]]

\* pd.read_csv: an empty field is read as a missing value.
read_csv_field(v) == IF v = <<>> THEN NaN ELSE v
read_csv(file_rows) ==
    [i \in DOMAIN file_rows |-> [c \in DOMAIN file_rows[i] |-> read_csv_field(file_rows[i][c])]]

File(file_rows) == [exists |-> TRUE, rows |-> file_rows]
NoFile == [exists |-> FALSE, rows |-> <<>>]

(***************************************************************************)
(* Inputs of a run                                                         *)
(***************************************************************************)
Logo(src) == [found |-> TRUE, src |-> src]
NoLogo == [found |-> FALSE, src |-> None]
Btn(literals) == [found |-> TRUE, literals |-> literals]
NoBtn == [found |-> FALSE, literals |-> <<>>]

BaseNode ==
    [anchors |-> <<Anchor("card-wrap", <<"/", "a">>, None, <<"7">>)>>,
     dm |-> JsonAttr("absent", None),
     dmp |-> JsonAttr("absent", None),
     description |-> Elem(<< <<" ", "Senior", " ">>, <<"Engineer">> >>),
     summary |-> Elem(<< <<"Seoul">> >>),
     dday |-> Elem(<< <<"D-3">> >>),
     logo |-> Logo(<<"/", "/", "cdn", "/", "logo">>),
     btn |-> Btn(<< <<"1">>, <<"_", "Acme", " ", "Corp", "_", "Senior">> >>)]

NoLinks == <<>>
HashCard == <<Anchor("card-wrap", <<"#">>, None, <<"7">>)>>

\* The base node with one part changed at a time, and the nodes whose
\* company the onclick does not give, one for each kind of resolved URL.
SectionNodes ==
    {BaseNode,
     [BaseNode EXCEPT !.description = NoElem, !.summary = NoElem, !.dday = NoElem],
     [BaseNode EXCEPT !.description = Elem(<< <<" ">> >>)],
     [BaseNode EXCEPT !.logo = NoLogo],
     [BaseNode EXCEPT !.logo = Logo(<<" ">>)],
     [BaseNode EXCEPT !.btn = NoBtn],
     [BaseNode EXCEPT !.btn = Btn(<< <<"Acme">> >>)],
     [BaseNode EXCEPT !.btn = Btn(<< <<"_", "&lt;BR&gt;", "_", "Senior">> >>)],
     [BaseNode EXCEPT !.btn = NoBtn, !.anchors = NoLinks],
     [BaseNode EXCEPT !.btn = NoBtn, !.anchors = HashCard]}

DetailOutcomes ==
    {Outcome("transport", <<>>), Outcome("http_error", <<>>),
     Outcome("unparsable", <<>>), Outcome("no_candidate", <<>>),
     Outcome("meta", <<>>), Outcome("element", << <<" ">> >>),
     Outcome("element", << <<" ", "Beta", " ">> >>)}

StoredRow(date) ==
    Record(<<"Acme", " ", "Corp">>, <<"https:", "/", "/", "cdn", "/", "logo">>,
           <<"Senior", " ", "Engineer">>, <<"Seoul">>, <<"D-9">>,
           BASE_URL \o <<"/", "a">>, date)
StoredFiles == {NoFile, File(<<StoredRow(<<"2025-12-31">>)>>)}

(***************************************************************************)
(* Initial states                                                          *)
(***************************************************************************)
\* The values of the variables a specification does not use.
IdleUrl == li = [anchors |-> <<>>, dm |-> JsonAttr("absent", None),
                 dmp |-> JsonAttr("absent", None)]
           /\ job_url = None
IdleFrames == existing_df = <<>> /\ new_df = <<>> /\ combined_df = <<>> /\ again = <<>>
IdleRun ==
    /\ batches = 0 /\ stored = NoFile /\ stored0 = NoFile /\ file_id = ""
    /\ writes = 0 /\ doc = [section |-> FALSE] /\ items = <<>> /\ idx = 0
    /\ cur = NoCur /\ rows = <<>> /\ fetched = {} /\ today = 1 /\ cause = ""

\* A run of main: the folder holds the CSV or not, the page holds the section
\* with up to MaxNodes nodes or does not hold it.
Init ==
    /\ pc = "start"
    /\ IdleUrl /\ IdleFrames
    /\ batches = 0
    /\ stored \in StoredFiles /\ stored0 = stored
    /\ file_id = "" /\ writes = 0
    /\ \E section \in BOOLEAN :
          /\ doc = [section |-> section]
          /\ items \in (IF section THEN SeqsUpTo(SectionNodes, MaxNodes) ELSE {<<>>})
    /\ idx = 0 /\ cur = NoCur /\ rows = <<>> /\ fetched = {}
    /\ today = 1 /\ cause = ""

InitUrl == pc = "url" /\ li \in UrlNodes /\ job_url = None /\ IdleFrames /\ IdleRun

InitMerge ==
    /\ pc = "reconcile"
    /\ existing_df \in SeqsUpTo(MergeRecords, MaxExisting)
    /\ new_df \in SeqsUpTo(MergeRecords, MaxIncoming)
    /\ combined_df = <<>> /\ again = <<>>
    /\ IdleUrl /\ IdleRun

(***************************************************************************)
(* Actions                                                                 *)
(***************************************************************************)
urlVars == <<li, job_url>>
frameVars == <<existing_df, new_df, combined_df, again>>
loopVars == <<idx, cur, rows, fetched>>
driveVars == <<stored, stored0, file_id, writes>>

Abort(why) == pc' = "aborted" /\ cause' = why

\* _extract_job_url applied to one node.
ExtractJobUrl ==
    /\ pc = "url"
    /\ job_url' = _extract_job_url(li)
    /\ pc' = "url_done"
    /\ UNCHANGED <<li, frameVars, batches, driveVars, doc, items, loopVars, today, cause>>

\* Lines 343-344 applied to an existing set and an incoming batch.
Reconcile ==
    /\ pc = "reconcile"
    /\ combined_df' = Merge(existing_df, new_df)
    /\ pc' = "reconciled"
    /\ UNCHANGED <<urlVars, existing_df, new_df, again, batches, driveVars, doc,
                   items, loopVars, today, cause>>

\* Lines 343-344 applied to the merged set and an empty batch.
ReconcileAgain ==
    /\ pc = "reconciled"
    /\ again' = Merge(combined_df, <<>>)
    /\ pc' = "reconciled_again"
    /\ UNCHANGED <<urlVars, existing_df, new_df, combined_df, batches, driveVars,
                   doc, items, loopVars, today, cause>>

\* Lines 310-322: the service, the folder or the listing fails.
DriveFail ==
    /\ pc = "start"
    /\ Abort("drive")
    /\ UNCHANGED <<urlVars, frameVars, batches, driveVars, doc, items, loopVars, today>>

\* Lines 323-339.
LoadExisting ==
    /\ pc = "start"
    /\ IF stored.exists
       THEN file_id' = "file-1" /\ existing_df' = read_csv(stored.rows)
       ELSE file_id' = "" /\ existing_df' = <<>>
    /\ pc' = "fetch"
    /\ UNCHANGED <<urlVars, new_df, combined_df, again, batches, stored, stored0,
                   writes, doc, items, loopVars, today, cause>>

\* Lines 263-266: the request of the page, after the adapter's retries.
PrimaryFetch ==
    /\ pc = "fetch"
    /\ \E outcome \in {"ok", "transport", "http_error"} :
          IF outcome = "ok" THEN pc' = "section" /\ cause' = cause
          ELSE Abort("fetch")
    /\ UNCHANGED <<urlVars, frameVars, batches, driveVars, doc, items, loopVars, today>>

\* A section lookup that answers a missing section with no items.
FindSection_EmptyBatch ==
    /\ pc = "section"
    /\ pc' = "loop"
    /\ UNCHANGED <<urlVars, frameVars, batches, driveVars, doc, items, loopVars,
                   today, cause>>

\* Lines 268-276.
FindSection ==
    /\ pc = "section"
    /\ IF doc.section THEN pc' = "loop" /\ cause' = cause ELSE Abort("section")
    /\ UNCHANGED <<urlVars, frameVars, batches, driveVars, doc, items, loopVars, today>>

\* Lines 278-286: the fields of the next node.
NodeBegin ==
    /\ pc = "loop" /\ idx < Len(items)
    /\ cur' = Extracted(items[idx + 1])
    /\ pc' = IF NeedsDetail(cur') THEN "detail" ELSE "append"
    /\ UNCHANGED <<urlVars, frameVars, batches, driveVars, doc, items, idx, rows,
                   fetched, today, cause>>

\* Line 287.
DetailFetch ==
    /\ pc = "detail"
    /\ \E outcome \in DetailOutcomes :
          LET r == _fetch_company_from_detail(cur.job_url, outcome)
          IN  IF r.raised THEN Abort("detail") /\ cur' = cur
              ELSE /\ cur' = [cur EXCEPT !.company = r.value]
                   /\ pc' = "append" /\ cause' = cause
    /\ fetched' = fetched \cup {idx + 1}
    /\ UNCHANGED <<urlVars, frameVars, batches, driveVars, doc, items, idx, rows, today>>

\* Lines 288-301.
AppendRow ==
    /\ pc = "append"
    /\ rows' = Append(rows,
                  Record(OrElse(cur.company, NoCompanyName), cur.logo_url, cur.title,
                         cur.summary, cur.dday, cur.job_url, strftime(today)))
    /\ idx' = idx + 1
    /\ cur' = NoCur
    /\ pc' = "loop"
    /\ UNCHANGED <<urlVars, frameVars, batches, driveVars, doc, items, fetched,
                   today, cause>>

\* Lines 303-304 and 341.
ReturnBatch ==
    /\ pc = "loop" /\ idx = Len(items)
    /\ new_df' = rows
    /\ batches' = batches + 1
    /\ pc' = "merge"
    /\ UNCHANGED <<urlVars, existing_df, combined_df, again, driveVars, doc, items,
                   loopVars, today, cause>>

\* Lines 343-345.
MergeStep ==
    /\ pc = "merge"
    /\ combined_df' = Merge(existing_df, new_df)
    /\ pc' = "upload"
    /\ UNCHANGED <<urlVars, existing_df, new_df, again, batches, driveVars, doc,
                   items, loopVars, today, cause>>

\* Lines 350-352.
Update ==
    /\ pc = "upload" /\ file_id # ""
    /\ stored' = File(to_csv(combined_df))
    /\ writes' = writes + 1
    /\ pc' = "done"
    /\ UNCHANGED <<urlVars, frameVars, batches, stored0, file_id, doc, items,
                   loopVars, today, cause>>

\* Lines 353-358.
Create ==
    /\ pc = "upload" /\ file_id = ""
    /\ stored' = File(to_csv(combined_df))
    /\ writes' = writes + 1
    /\ pc' = "done"
    /\ UNCHANGED <<urlVars, frameVars, batches, stored0, file_id, doc, items,
                   loopVars, today, cause>>

\* The upload request fails.
UploadFail ==
    /\ pc = "upload"
    /\ Abort("upload")
    /\ UNCHANGED <<urlVars, frameVars, batches, driveVars, doc, items, loopVars, today>>

\* Midnight passes while the loop over the nodes runs.
Tick ==
    /\ pc \in {"loop", "detail", "append"}
    /\ today < MaxDate
    /\ today' = today + 1
    /\ UNCHANGED <<pc, urlVars, frameVars, batches, driveVars, doc, items, loopVars, cause>>

Next ==
    \/ DriveFail \/ LoadExisting \/ PrimaryFetch \/ FindSection
    \/ NodeBegin \/ DetailFetch \/ AppendRow \/ ReturnBatch
    \/ MergeStep \/ Update \/ Create \/ UploadFail \/ Tick

Spec == Init /\ [][Next]_vars

NextUrl == ExtractJobUrl
SpecUrl == InitUrl /\ [][NextUrl]_vars

NextMerge == Reconcile \/ ReconcileAgain
SpecMerge == InitMerge /\ [][NextMerge]_vars

(***************************************************************************)
(* Properties                                                              *)
(***************************************************************************)
IsOrigin(t) == t \in {"https://host", "HTTPS://HOST", "https://www.jobkorea.co.kr"}
IsWord(t) == t \notin {" ", "/", "#", "_", "https:", "javascript:", "JavaScript:"}

\* A URL with a scheme and a host.
Absolute(u) ==
    /\ u # <<>>
    /\ \/ IsOrigin(u[1])
       \/ /\ Len(u) >= 4
          /\ u[1] = "https:" /\ u[2] = "/" /\ u[3] = "/"
          /\ IsWord(u[4])

Min(S) == CHOOSE x \in S : \A y \in S : x <= y
Max(S) == CHOOSE x \in S : \A y \in S : x >= y

\* C5: _extract_job_url returns an absolute URL or exactly "No URL", never a
\* script pseudo-URL, a bare "#" or a relative path.
C5_AbsoluteOrSentinel ==
    pc = "url_done" => (job_url = NoURL \/ Absolute(job_url))

\* The value each tier of the docstring offers for a node, "" when it misses.
TierRaw(n, k) ==
    LET cards == {i \in DOMAIN n.anchors : n.anchors[i].cls = "card-wrap"}
        card  == n.anchors[Min(cards)]
        firstOf(cls) ==
            LET S == {i \in DOMAIN n.anchors : n.anchors[i].cls = cls}
            IN  IF S = {} THEN <<>> ELSE ValidHrefOf(n.anchors[Min(S)])
        valid == {i \in DOMAIN n.anchors : ValidHrefOf(n.anchors[i]) # <<>>}
        idOf(attr) ==
            IF attr.kind = "object" /\ Truthy(attr.id) THEN GI_Read(attr.id) ELSE <<>>
    IN  CASE k = 1 -> IF cards # {} /\ Strip(OrEmpty(card.href)) # <<>>
                         /\ ~StartsWithJavascript(Lower(Strip(OrEmpty(card.href))))
                      THEN Strip(OrEmpty(card.href)) ELSE <<>>
          [] k = 2 -> IF cards # {} THEN Strip(OrEmpty(card.dlink)) ELSE <<>>
          [] k = 3 -> firstOf("description")
          [] k = 4 -> firstOf("company-name")
          [] k = 5 -> IF valid = {} THEN <<>> ELSE ValidHrefOf(n.anchors[Min(valid)])
          [] k = 6 -> IF cards # {} /\ Strip(OrEmpty(card.gno)) # <<>>
                      THEN GI_Read(Strip(OrEmpty(card.gno))) ELSE <<>>
          [] k = 7 -> idOf(n.dm)
          [] OTHER -> idOf(n.dmp)

\* C6: the result comes from the first tier, in the docstring's order, that
\* offers a value, and is "No URL" when none does; a primary anchor with a
\* valid href and a data-gno resolves to the href, not to /Recruit/GI_Read/{gno}.
C6_TierOrder ==
    pc = "url_done" =>
        LET hits == {k \in 1..8 : TierRaw(li, k) # <<>>}
        IN  /\ job_url = IF hits = {} THEN NoURL ELSE _fix_url(TierRaw(li, Min(hits)))
            /\ \A i \in DOMAIN li.anchors :
                  (/\ li.anchors[i].cls = "card-wrap"
                   /\ ValidHrefOf(li.anchors[i]) # <<>>
                   /\ Truthy(li.anchors[i].gno))
                  => /\ job_url = _fix_url(li.anchors[i].href)
                     /\ job_url # _fix_url(GI_Read(Strip(li.anchors[i].gno)))

\* C6 witness: a node with a valid href and a data-gno on its primary anchor
\* has been resolved.
C6_Witness ==
    /\ pc = "url_done"
    /\ \E i \in DOMAIN li.anchors :
          /\ li.anchors[i].cls = "card-wrap"
          /\ li.anchors[i].href = <<" ", "/", "a", " ">>
          /\ li.anchors[i].gno = <<"7">>
    /\ job_url = BASE_URL \o <<"/", "a">>

Merged == pc \in {"reconciled", "reconciled_again"}
Cat == existing_df \o new_df
KeysOf(df) == [i \in DOMAIN df |-> Key(df[i])]
LastOf(df, K) == Max({i \in DOMAIN df : Key(df[i]) = K})

\* C1: for every key of existing ++ incoming the merged set holds exactly one
\* record with that key, the last one of the concatenation, and it holds no
\* record of any other key.
C1_LastPerKey ==
    Merged =>
        /\ \A i \in DOMAIN Cat :
              LET K == Key(Cat[i])
                  at == {m \in DOMAIN combined_df : Key(combined_df[m]) = K}
              IN  /\ Cardinality(at) = 1
                  /\ \A m \in at : combined_df[m] = Cat[LastOf(Cat, K)]
        /\ \A m \in DOMAIN combined_df : \E i \in DOMAIN Cat : Key(Cat[i]) = Key(combined_df[m])

\* C1 witness: a key held by an existing record and by two incoming records
\* that differ was merged, and the last incoming record is the one kept.
C1_Witness ==
    /\ Merged
    /\ Len(new_df) = 2 /\ Len(existing_df) >= 1
    /\ Key(new_df[1]) = Key(new_df[2]) /\ new_df[1] # new_df[2]
    /\ Key(existing_df[1]) = Key(new_df[2])
    /\ \E m \in DOMAIN combined_df : combined_df[m] = new_df[2]

\* C2 as stated: an existing and an incoming record with the same Job URL and
\* different titles leave exactly one record with that Job URL, an incoming one.
C2_OneRecordPerUrl ==
    Merged =>
        \A i \in DOMAIN existing_df : \A j \in DOMAIN new_df :
            (existing_df[i].URL = new_df[j].URL /\ existing_df[i].Title # new_df[j].Title)
            => LET at == {m \in DOMAIN combined_df : combined_df[m].URL = new_df[j].URL}
               IN  /\ Cardinality(at) = 1
                   /\ \A m \in at : \E k \in DOMAIN new_df : combined_df[m] = new_df[k]

\* C2 amended: an incoming record replaces an existing one when Job URL and
\* Job Title both agree (one record with that pair, all fields the last such
\* incoming record's); with the same Job URL and different titles both stay.
C2_SameKeyIncomingWins ==
    Merged =>
        \A i \in DOMAIN existing_df : \A j \in DOMAIN new_df :
            existing_df[i].URL = new_df[j].URL =>
                LET forKey(K) == {m \in DOMAIN combined_df : Key(combined_df[m]) = K}
                IN  IF existing_df[i].Title = new_df[j].Title
                    THEN /\ Cardinality(forKey(Key(new_df[j]))) = 1
                         /\ \A m \in forKey(Key(new_df[j])) :
                               combined_df[m] = new_df[LastOf(new_df, Key(new_df[j]))]
                    ELSE /\ forKey(Key(existing_df[i])) # {}
                         /\ forKey(Key(new_df[j])) # {}
                         /\ forKey(Key(existing_df[i])) # forKey(Key(new_df[j]))

\* C2 witness: an incoming record met an existing one with its Job URL and
\* Job Title and another Scraped Date, and only the incoming one is left.
C2_Witness ==
    /\ Merged
    /\ \E i \in DOMAIN existing_df : \E j \in DOMAIN new_df :
          /\ Key(existing_df[i]) = Key(new_df[j])
          /\ existing_df[i].Date # new_df[j].Date
          /\ \E m \in DOMAIN combined_df : combined_df[m] = new_df[j]
          /\ \A m \in DOMAIN combined_df : combined_df[m] # existing_df[i]

\* Keys in the order of their first occurrence.
RECURSIVE FirstSeen(_)
FirstSeen(keys) ==
    IF keys = <<>> THEN <<>>
    ELSE LET front == FirstSeen(SubSeq(keys, 1, Len(keys) - 1))
             k == keys[Len(keys)]
         IN  IF \E i \in DOMAIN front : front[i] = k THEN front ELSE Append(front, k)

\* C3 as stated: the merged set lists the keys in first-seen order of
\* existing ++ incoming, a replaced record keeping its original position.
C3_FirstSeenOrder ==
    Merged => KeysOf(combined_df) = FirstSeen(KeysOf(Cat))

\* C3 amended: the merged set is the concatenation cut down to the rows at the
\* last occurrence of each key, in concatenation order.
C3_LastSeenOrder ==
    Merged =>
        LET last == {i \in DOMAIN Cat : \A j \in (i + 1)..Len(Cat) : Key(Cat[j]) # Key(Cat[i])}
        IN  /\ Len(combined_df) = Cardinality(last)
            /\ \A i \in last :
                  combined_df[Cardinality({j \in last : j <= i})] = Cat[i]

\* C3 witness: the first existing record was replaced by an incoming one and
\* now stands behind an existing record that used to follow it.
C3_Witness ==
    /\ Merged
    /\ Len(existing_df) = 2 /\ Len(new_df) = 1
    /\ Key(existing_df[1]) = Key(new_df[1])
    /\ Key(existing_df[2]) # Key(new_df[1])
    /\ combined_df = <<existing_df[2], new_df[1]>>

\* C4: merging an empty batch into the merged set gives the merged set again,
\* in content and order.
C4_Idempotent ==
    pc = "reconciled_again" => again = combined_df

\* C4 witness: a merge that dropped rows and kept at least two was merged
\* once more with an empty batch.
C4_Witness ==
    /\ pc = "reconciled_again"
    /\ Len(combined_df) < Len(Cat)
    /\ Len(combined_df) >= 2
    /\ again = combined_df

NonBlank(v) == v # None /\ v # NaN /\ ~Blank(v)

\* C7: one record per node, in node order, every field of it non-blank.
C7_Totality ==
    /\ \A i \in DOMAIN rows :
          /\ rows[i].URL = _extract_job_url(items[i])
          /\ \A v \in {rows[i].Company, rows[i].Logo, rows[i].Title, rows[i].Summary,
                       rows[i].DDay, rows[i].URL, rows[i].Date} : NonBlank(v)
    /\ batches = 1 => Len(new_df) = Len(items)

\* The names a detail page of DetailOutcomes can give.
FoundNames ==
    {get_text(o.frags, <<>>) : o \in {d \in DetailOutcomes : d.kind = "element"}} \ {<<>>}

\* C8: the detail page is asked for only when the onclick gave no company and
\* a Job URL other than "" and "No URL" was resolved; no failure of it leaves
\* the function; the node's record is emitted with a found name or exactly
\* "No Company Name".
C8_DetailFallback ==
    /\ cause # "detail"
    /\ \A i \in fetched :
          /\ _extract_company_from_onclick(items[i]) = None
          /\ _extract_job_url(items[i]) \notin {None, <<>>, NoURL}
          /\ i <= idx => i \in DOMAIN rows
    /\ pc = "detail" => (idx + 1) \notin fetched
    /\ pc = "append" => cause = ""
    /\ \A i \in DOMAIN rows :
          /\ ~Blank(rows[i].Company)
          /\ \/ rows[i].Company = NoCompanyName
             \/ rows[i].Company = _extract_company_from_onclick(items[i])
             \/ i \in fetched /\ rows[i].Company \in FoundNames
    /\ batches = 1 => Len(new_df) = Len(items)

\* C8 witness: a detail fetch that found nothing was followed by the record
\* of its node, and one that found a name by a record carrying it.
C8_Witness ==
    /\ \E i \in fetched : i \in DOMAIN rows /\ rows[i].Company = NoCompanyName
    /\ \E i \in fetched : i \in DOMAIN rows /\ rows[i].Company \in FoundNames
    /\ batches = 1

\* C9: a failed page fetch or a missing section aborts the run with no batch
\* returned and the stored file untouched; the file is written only after a
\* batch was returned.
C9_NoWriteOnFatal ==
    /\ cause \in {"fetch", "section"} =>
          /\ pc = "aborted"
          /\ batches = 0 /\ writes = 0 /\ stored = stored0
          /\ rows = <<>>
    /\ ~doc.section => batches = 0 /\ writes = 0 /\ stored = stored0
    /\ writes > 0 => batches = 1
    /\ stored # stored0 => writes > 0

\* C9 witness: the section was missing while the folder held the CSV.
C9_Witness ==
    /\ pc = "aborted" /\ cause = "section"
    /\ stored.exists /\ stored = stored0

\* C10: all records of one call carry the same Scraped Date.
C10_SharedDate ==
    \A i \in DOMAIN rows : \A j \in DOMAIN rows : rows[i].Date = rows[j].Date

====
